---- MODULE Spec2Model ----
(***************************************************************************)
(* comfyui-vram-overlay: the Host-side supervisor of the overlay process   *)
(* (nodes.py) and the Monitor program it spawns (mvu_overlay_app.py).      *)
(*                                                                         *)
(* Four specifications share the module:                                   *)
(*   Spec         the Host: node instances, the singleton                  *)
(*                OverlayProcessManager, and the child processes it owns   *)
(*   SpecDetector ProcessMonitorModel.is_alive applied to bounded inputs   *)
(*   SpecMonitor  one Monitor process from main() to sys.exit()            *)
(*                (FairMonitor adds the event loop's fairness)             *)
(*   SpecTelemetry  a VramMonitorModel object called method by method      *)
(* Optional[T] values are sequences of length <= 1: None is <<>>.          *)
(* Python strings are sequences of one-character strings.                  *)
(***************************************************************************)
EXTENDS Integers, Sequences, FiniteSets, TLC

VARIABLES
    \* ---- Host process (nodes.py) ----
    hostPid,      \* os.getpid() of the Host
    _instance,    \* OverlayProcessManager._instance: None or a manager object
    managers,     \* the OverlayProcessManager objects, each with its _process
    nodes,        \* MVU_VramOverlay objects: node -> self.manager (None: not constructed)
    procs,        \* child processes created by subprocess.Popen, in spawn order
    lastOp,       \* what the latest run() call did and returned
    \* ---- Monitor process (mvu_overlay_app.py) ----
    pidArg,       \* the integer given as --pid on the command line (None: no flag)
    argv,         \* the command-line arguments of the Monitor
    table,        \* the OS process table: what psutil sees, in process_iter order
    target_pid,   \* ProcessMonitorModel.target_pid
    dpc,          \* SpecDetector: how far the detector run has got
    result,       \* what the latest is_alive() call returned
    spawnedByHost,  \* whether the Monitor was started by start_overlay
    hostAlive,    \* whether the Host process still exists
    phase,        \* where main() is: created, exec, quitting, exited, aborted, killed
    vram_timer,   \* OverlayController.vram_timer is active
    process_timer,  \* OverlayController.process_timer is active
    vm,           \* VramMonitorModel: _handle, _initialized
    nvml,         \* the NVML library: loaded, and the calls made to it
    text,         \* VramOverlayView.label text
    quitCalls,    \* calls of QApplication.quit()
    foundDead,    \* a liveness check has found the target not alive
    cleaned,      \* OverlayController.cleanup() has run
    lastPoll      \* what the latest _update_vram call did

hostVars == <<hostPid, _instance, managers, nodes, procs, lastOp>>
detVars == <<pidArg, argv, table, target_pid, dpc, result>>
monVars == <<spawnedByHost, hostAlive, phase, vram_timer, process_timer, vm, nvml,
             text, quitCalls, foundDead, cleaned, lastPoll>>

vars == <<hostVars, detVars, monVars>>

\* ------------------------------------------------------------------ bounds
MaxNodes == 2
MaxSpawn == 2
MaxDelay == 2
MaxPid == 11
MaxProcs == 2
MaxCalls == 2

\* ------------------------------------------------------------------ values
None == <<>>
Some(x) == <<x>>
Get(o) == o[1]

Nodes == 1..MaxNodes
\* seconds after terminate() at which the child is gone; MaxDelay or more: not yet
Delays == 0..MaxDelay
HostPids == {1, MaxPid}

\* ------------------------------------------------------------------ str / int
Digits == <<"0", "1", "2", "3", "4", "5", "6", "7", "8", "9">>

RECURSIVE str(_)
\* str(n): the decimal digits of n, after a minus sign if n < 0
str(n) == IF n < 0 THEN <<"-">> \o str(0 - n)
          ELSE IF n < 10 THEN <<Digits[n + 1]>>
          ELSE str(n \div 10) \o <<Digits[(n % 10) + 1]>>

DigitValue(c) == (CHOOSE i \in 1..10 : Digits[i] = c) - 1

RECURSIVE int(_)
\* int(s) for an optional minus sign and decimal digits (argparse type=int)
int(s) == IF s[1] = "-" THEN 0 - int(Tail(s))
          ELSE IF Len(s) = 1 THEN DigitValue(s[1])
          ELSE 10 * int(SubSeq(s, 1, Len(s) - 1)) + DigitValue(s[Len(s)])

\* ------------------------------------------------------------------ strings
UpperCase == <<"A", "B", "C", "D", "E", "F", "G", "H", "I", "J", "K", "L", "M",
               "N", "O", "P", "Q", "R", "S", "T", "U", "V", "W", "X", "Y", "Z">>
LowerCase == <<"a", "b", "c", "d", "e", "f", "g", "h", "i", "j", "k", "l", "m",
               "n", "o", "p", "q", "r", "s", "t", "u", "v", "w", "x", "y", "z">>

\* str.lower()
lower(s) ==
    [i \in DOMAIN s |->
        IF \E k \in DOMAIN UpperCase : UpperCase[k] = s[i]
        THEN LowerCase[CHOOSE k \in DOMAIN UpperCase : UpperCase[k] = s[i]]
        ELSE s[i]]

\* sub in s, for two strings: s has sub as a substring
StrContains(sub, s) ==
    \E i \in 0..(Len(s) - Len(sub)) : SubSeq(s, i + 1, i + Len(sub)) = sub

\* x in xs, for a list xs: some element of xs equals x
ListContains(x, xs) == \E i \in DOMAIN xs : xs[i] = x

\* ------------------------------------------------------------------ nodes.py
\* subprocess.Popen.wait(timeout=2): the grace period of stop_overlay
TERMINATE_TIMEOUT == 2

\* cmd = [sys.executable, script_path, "--pid", str(current_pid)]; the
\* arguments the child's argparse sees are those after the script path
cmd_without_pid(current_pid) == <<>>
cmd(current_pid) == <<"--pid", str(current_pid)>>

\* Popen.poll(): None while the child runs, its return code once it has exited
poll(h, ps) == IF ps[h].status = "running" THEN None ELSE Some(ps[h].status)

\* whether the child behind handle p exists and has not exited (the OS's view)
child_alive(p, ps) == p # None /\ ps[Get(p)].status = "running"

\* OverlayProcessManager.is_running, for a manager whose _process is p
is_running_never(p, ps) == FALSE
is_running_unpolled(p, ps) == p # None
is_running(p, ps) ==
    IF p = None THEN FALSE
    ELSE IF poll(Get(p), ps) = None THEN TRUE
    ELSE FALSE

\* subprocess.Popen(cmd, cwd=current_dir): a new child, or OSError
Popen(ps, args, refused) ==
    IF refused
    THEN [exc |-> "OSError", procs |-> ps, handle |-> None]
    ELSE [exc |-> "None",
          procs |-> Append(ps, [argv |-> args, status |-> "running",
                                sigterm |-> FALSE, sigkill |-> FALSE]),
          handle |-> Some(Len(ps) + 1)]

\* The result of a manager method: the manager's _process afterwards, the
\* process table, the exception that escapes ("None": normal return), the
\* number of processes created and the signals sent (with the second, counted
\* from the call, at which each was sent).
Result(p, ps, e, n, ev) ==
    [_process |-> p, procs |-> ps, exc |-> e, spawned |-> n, events |-> ev]

\* OverlayProcessManager.start_overlay.  script_exists is os.path.exists(script_path),
\* refused is whether the OS refuses to create the process.
start_overlay_unchecked(p, ps, current_pid, script_exists, refused) ==
    IF is_running(p, ps) THEN Result(p, ps, "None", 0, <<>>)
    ELSE LET r == Popen(ps, cmd(current_pid), refused)
         IN  IF r.exc = "None" THEN Result(r.handle, r.procs, "None", 1, <<>>)
             ELSE IF r.exc = "OSError" THEN Result(p, ps, "None", 0, <<>>)
             ELSE Result(p, ps, r.exc, 0, <<>>)
start_overlay_uncaught(p, ps, current_pid, script_exists, refused) ==
    IF is_running(p, ps) THEN Result(p, ps, "None", 0, <<>>)
    ELSE IF ~script_exists THEN Result(p, ps, "None", 0, <<>>)
    ELSE LET r == Popen(ps, cmd(current_pid), refused)
         IN  IF r.exc = "None" THEN Result(r.handle, r.procs, "None", 1, <<>>)
             ELSE Result(p, ps, r.exc, 0, <<>>)
start_overlay(p, ps, current_pid, script_exists, refused) ==
    IF is_running(p, ps) THEN Result(p, ps, "None", 0, <<>>)
    ELSE IF ~script_exists THEN Result(p, ps, "None", 0, <<>>)
    ELSE LET r == Popen(ps, cmd(current_pid), refused)
         IN  IF r.exc = "None" THEN Result(r.handle, r.procs, "None", 1, <<>>)
             ELSE IF r.exc = "OSError" THEN Result(p, ps, "None", 0, <<>>)
             ELSE Result(p, ps, r.exc, 0, <<>>)

\* Popen.terminate() / Popen.kill(): the signal is posted to the child; the
\* call returns without waiting for the child to go
send_signal(ps, h, sig) ==
    IF sig = "terminate" THEN [ps EXCEPT ![h].sigterm = TRUE]
    ELSE [ps EXCEPT ![h].sigkill = TRUE]

\* the child is reaped by wait(): it has exited
reaped(ps, h) == [ps EXCEPT ![h].status = "exited"]

\* OverlayProcessManager.stop_overlay.  delay is the time after terminate()
\* at which the child exits; wait(timeout=2) returns if that is before the
\* deadline and raises TimeoutExpired at the deadline otherwise.
stop_overlay_clears(p, ps, delay) ==
    IF is_running(p, ps) /\ p # None
    THEN LET h == Get(p)
             ps1 == send_signal(ps, h, "terminate")
             t == [sig |-> "terminate", at |-> 0]
         IN  IF delay < TERMINATE_TIMEOUT
             THEN Result(None, reaped(ps1, h), "None", 0, <<t>>)
             ELSE Result(None, send_signal(ps1, h, "kill"), "None", 0,
                         <<t, [sig |-> "kill", at |-> TERMINATE_TIMEOUT]>>)
    ELSE Result(None, ps, "None", 0, <<>>)
stop_overlay_keeps(p, ps, delay) ==
    IF is_running(p, ps) /\ p # None
    THEN LET h == Get(p)
             ps1 == send_signal(ps, h, "terminate")
             t == [sig |-> "terminate", at |-> 0]
         IN  IF delay < TERMINATE_TIMEOUT
             THEN Result(None, reaped(ps1, h), "None", 0, <<t>>)
             ELSE Result(p, send_signal(ps1, h, "kill"), "None", 0,
                         <<t, [sig |-> "kill", at |-> TERMINATE_TIMEOUT]>>)
    ELSE Result(p, ps, "None", 0, <<>>)
stop_overlay_kills(p, ps, delay) ==
    IF is_running(p, ps) /\ p # None
    THEN LET h == Get(p)
             ps1 == send_signal(ps, h, "terminate")
             t == [sig |-> "terminate", at |-> 0]
         IN  Result(None, send_signal(ps1, h, "kill"), "None", 0,
                    <<t, [sig |-> "kill", at |-> 0]>>)
    ELSE Result(p, ps, "None", 0, <<>>)
stop_overlay(p, ps, delay) ==
    IF is_running(p, ps) /\ p # None
    THEN LET h == Get(p)
             ps1 == send_signal(ps, h, "terminate")
             t == [sig |-> "terminate", at |-> 0]
         IN  IF delay < TERMINATE_TIMEOUT
             THEN Result(None, reaped(ps1, h), "None", 0, <<t>>)
             ELSE Result(None, send_signal(ps1, h, "kill"), "None", 0,
                         <<t, [sig |-> "kill", at |-> TERMINATE_TIMEOUT]>>)
    ELSE Result(p, ps, "None", 0, <<>>)

\* MVU_VramOverlay.run: which manager method it calls, and what it returns
\* (<<enabled>> is the tuple (enabled,); <<>>: an exception escaped instead)
run_called_inverted(enabled) == IF enabled THEN "stop_overlay" ELSE "start_overlay"
run_called(enabled) == IF enabled THEN "start_overlay" ELSE "stop_overlay"

run_result(enabled, r) == IF r.exc = "None" THEN <<enabled>> ELSE <<>>

NoOp == [op |-> "none", enabled |-> FALSE, called |-> "none", ret |-> <<>>,
         exc |-> "None", before |-> None, after |-> None, alive |-> FALSE,
         procs_same |-> TRUE, spawned |-> 0, events |-> <<>>, delay |-> 0,
         script_exists |-> TRUE, refused |-> FALSE, retry |-> FALSE]

\* whether the run() recorded in o was a start_overlay() that found no live
\* Monitor and could not spawn one
failed_start(o) ==
    /\ o.called = "start_overlay"
    /\ ~o.alive
    /\ ~o.script_exists \/ o.refused

\* ------------------------------------------------------------------ Host actions
HostInit ==
    /\ hostPid \in HostPids
    /\ _instance = None
    /\ managers = <<>>
    /\ nodes = [n \in Nodes |-> None]
    /\ procs = <<>>
    /\ lastOp = NoOp

\* OverlayProcessManager.__new__, called by MVU_VramOverlay.__init__
NodeInit(n) ==
    /\ IF _instance = None
       THEN /\ managers' = Append(managers, [_process |-> None])
            /\ _instance' = Some(Len(managers) + 1)
       ELSE UNCHANGED <<managers, _instance>>
    /\ nodes' = [nodes EXCEPT ![n] = _instance']
    /\ UNCHANGED <<hostPid, procs, lastOp>>
    /\ UNCHANGED <<detVars, monVars>>

\* what the environment decides during one run(): for start_overlay whether
\* the script file exists and whether the OS refuses the spawn, for
\* stop_overlay when the child goes after terminate()
RunEnv(enabled) ==
    IF run_called(enabled) = "start_overlay"
    THEN [script_exists : BOOLEAN, refused : BOOLEAN, delay : {0}]
    ELSE [script_exists : {TRUE}, refused : {FALSE}, delay : Delays]

\* MVU_VramOverlay.run(enabled) on node n
run(n, enabled) ==
    /\ nodes[n] # None
    /\ \E env \in RunEnv(enabled) :
         LET m == Get(nodes[n])
             p == managers[m]._process
             r == IF run_called(enabled) = "start_overlay"
                  THEN start_overlay(p, procs, hostPid, env.script_exists, env.refused)
                  ELSE stop_overlay(p, procs, env.delay)
         IN  /\ Len(r.procs) <= MaxSpawn
             /\ managers' = [managers EXCEPT ![m]._process = r._process]
             /\ procs' = r.procs
             /\ lastOp' = [op |-> "run", enabled |-> enabled,
                           called |-> run_called(enabled),
                           ret |-> run_result(enabled, r), exc |-> r.exc,
                           before |-> p, after |-> r._process,
                           alive |-> child_alive(p, procs),
                           procs_same |-> (r.procs = procs),
                           spawned |-> r.spawned, events |-> r.events,
                           delay |-> env.delay, script_exists |-> env.script_exists,
                           refused |-> env.refused,
                           retry |-> failed_start(lastOp)]
    /\ UNCHANGED <<hostPid, _instance, nodes>>
    /\ UNCHANGED <<detVars, monVars>>

\* a Monitor process ends by itself: main() reaches sys.exit(exit_code), or
\* the default action of a posted terminate signal ends it
MonitorExits(h) ==
    /\ h \in DOMAIN procs
    /\ procs[h].status = "running"
    /\ procs' = [procs EXCEPT ![h].status = "exited"]
    /\ UNCHANGED <<hostPid, _instance, managers, nodes, lastOp>>
    /\ UNCHANGED <<detVars, monVars>>

\* the OS ends a child to which kill() was posted
KillDelivered(h) ==
    /\ h \in DOMAIN procs
    /\ procs[h].status = "running"
    /\ procs[h].sigkill
    /\ procs' = [procs EXCEPT ![h].status = "exited"]
    /\ UNCHANGED <<hostPid, _instance, managers, nodes, lastOp>>
    /\ UNCHANGED <<detVars, monVars>>

\* the Monitor-side variables while only the Host is modelled
DetIdle ==
    /\ pidArg = None
    /\ argv = <<>>
    /\ table = <<>>
    /\ target_pid = None
    /\ dpc = "off"
    /\ result = [value |-> FALSE, exc |-> "None", mode |-> "none"]

\* str of the label before the first poll, and of a failed poll
S_Init == <<"I", "n", "i", "t", ".", ".", ".">>
S_VRAM_Err == <<"V", "R", "A", "M", ":", " ", "E", "r", "r">>

\* VramMonitorModel.__init__
VramMonitorModel == [_handle |-> None, _initialized |-> FALSE]

\* the NVML library before any call: whether it is loaded now, whether
\* nvmlInit() has ever succeeded, the calls of nvmlInit() and nvmlShutdown(),
\* and whether a memory query was made outside an initialized library's life
NvmlUnloaded == [loaded |-> FALSE, inited |-> FALSE, initCalls |-> 0,
                 shutdownCalls |-> 0, misused |-> FALSE]

\* no _update_vram call yet
NoPoll == [by |-> "none", queried |-> FALSE, q |-> None, vm_same |-> TRUE,
           after_failure |-> FALSE]

\* the Monitor's own variables while no Monitor program is modelled
MonIdle ==
    /\ spawnedByHost = FALSE
    /\ hostAlive = TRUE
    /\ phase = "off"
    /\ vram_timer = FALSE
    /\ process_timer = FALSE
    /\ vm = VramMonitorModel
    /\ nvml = NvmlUnloaded
    /\ text = S_Init
    /\ quitCalls = 0
    /\ foundDead = FALSE
    /\ cleaned = FALSE
    /\ lastPoll = NoPoll

Init == HostInit /\ DetIdle /\ MonIdle

Next ==
    \/ \E n \in Nodes : NodeInit(n)
    \/ \E n \in Nodes, enabled \in BOOLEAN : run(n, enabled)
    \/ \E h \in 1..MaxSpawn : MonitorExits(h)
    \/ \E h \in 1..MaxSpawn : KillDelivered(h)

Spec == Init /\ [][Next]_vars

\* ------------------------------------------------------------------ claims, Spec
Running == {h \in DOMAIN procs : procs[h].status = "running"}

\* C1: in every reachable state at most one Monitor process spawned by the
\* Host is alive.
C1_AtMostOneMonitorAlive == Cardinality(Running) <= 1

\* C2: a start_overlay() that finds the stored handle's process alive spawns
\* no process and leaves the stored handle (and the process table) unchanged.
C2_IdempotentStart ==
    (lastOp.called = "start_overlay" /\ lastOp.alive)
        => /\ lastOp.spawned = 0
           /\ lastOp.after = lastOp.before
           /\ lastOp.procs_same

C2_Witness ==
    /\ lastOp.called = "start_overlay"
    /\ lastOp.alive
    /\ Len(procs) = 1
    /\ procs[1].status = "running"

\* C3: a stop_overlay() with no active Monitor (no handle, or a handle whose
\* process has exited) raises nothing, sends no signal and changes neither
\* the stored handle nor any process.
C3_IdempotentStop ==
    (lastOp.called = "stop_overlay" /\ ~lastOp.alive)
        => /\ lastOp.exc = "None"
           /\ lastOp.events = <<>>
           /\ lastOp.after = lastOp.before
           /\ lastOp.procs_same

C3_Witness ==
    /\ lastOp.called = "stop_overlay"
    /\ ~lastOp.alive
    /\ lastOp.before # None

\* C4 as stated: after any stop_overlay() the stored handle is None.
C4_HandleClearedAfterStop ==
    lastOp.called = "stop_overlay" => lastOp.after = None

\* C4 as amended: after stop_overlay() the stored handle is None whenever the
\* call found no handle or a live process (also one that ignores terminate);
\* a handle whose process had already exited is left in place, so that in
\* every case the handle left behind is None or that of an exited process.
C4_NoLiveHandleAfterStop ==
    lastOp.called = "stop_overlay"
        => /\ (lastOp.alive \/ lastOp.before = None) => lastOp.after = None
           /\ (~lastOp.alive /\ lastOp.before # None)
                 => /\ lastOp.after = lastOp.before
                    /\ procs[Get(lastOp.after)].status = "exited"

C4_Witness ==
    /\ lastOp.called = "stop_overlay"
    /\ lastOp.alive
    /\ lastOp.delay >= TERMINATE_TIMEOUT
    /\ lastOp.after = None
    /\ procs[Get(lastOp.before)].status = "running"

\* C5: a stop_overlay() on a live Monitor sends terminate first (at second
\* 0); a kill is sent only after terminate, only at the end of the
\* 2 s grace period and only if the process had not exited within it.
C5_GracefulThenForceful ==
    (lastOp.called = "stop_overlay" /\ lastOp.alive)
        => /\ Len(lastOp.events) \in {1, 2}
           /\ lastOp.events[1] = [sig |-> "terminate", at |-> 0]
           /\ \A i \in DOMAIN lastOp.events :
                 lastOp.events[i].sig = "kill"
                   => /\ i = 2
                      /\ lastOp.events[i].at = TERMINATE_TIMEOUT
                      /\ lastOp.delay >= TERMINATE_TIMEOUT
           /\ lastOp.delay < TERMINATE_TIMEOUT => Len(lastOp.events) = 1

C5_Witness ==
    /\ lastOp.called = "stop_overlay"
    /\ lastOp.alive
    /\ Len(lastOp.events) = 2
    /\ lastOp.events[2].sig = "kill"

\* C6: run(enabled) returns the tuple (enabled,), calls start_overlay()
\* exactly when enabled is true and stop_overlay() exactly when it is false,
\* and no exception escapes, whatever start/stop met.
C6_RunPassThrough ==
    lastOp.op = "run"
        => /\ lastOp.ret = <<lastOp.enabled>>
           /\ lastOp.exc = "None"
           /\ lastOp.called = "start_overlay" <=> lastOp.enabled
           /\ lastOp.called = "stop_overlay" <=> ~lastOp.enabled

C6_Witness ==
    /\ lastOp.op = "run"
    /\ lastOp.enabled
    /\ ~lastOp.alive
    /\ lastOp.script_exists
    /\ lastOp.refused
    /\ lastOp.ret = <<TRUE>>

\* the command line start_overlay gives the Monitor of a Host with pid q
HasPidArgument(args, q) ==
    /\ Len(args) = 2
    /\ args[1] = "--pid"
    /\ args[2] = str(q)
    /\ int(args[2]) = q

\* C14: a handle whose process has exited on its own counts as not running,
\* and a start_overlay() that finds such a handle (script present, spawn
\* allowed) spawns exactly one new Monitor with --pid <Host PID> and stores
\* its handle in place of the stale one.
C14_ReplacementAfterExit ==
    /\ \A m \in DOMAIN managers :
          LET p == managers[m]._process
          IN  (p # None /\ procs[Get(p)].status = "exited") => ~is_running(p, procs)
    /\ (/\ lastOp.called = "start_overlay"
        /\ lastOp.before # None
        /\ ~lastOp.alive
        /\ lastOp.script_exists
        /\ ~lastOp.refused)
          => /\ lastOp.spawned = 1
             /\ lastOp.after # None
             /\ lastOp.after # lastOp.before
             /\ managers[Get(_instance)]._process = lastOp.after
             /\ Get(lastOp.after) = Len(procs)
             /\ HasPidArgument(procs[Get(lastOp.after)].argv, hostPid)

C14_Witness ==
    /\ lastOp.called = "start_overlay"
    /\ lastOp.before = Some(1)
    /\ lastOp.after = Some(2)
    /\ lastOp.spawned = 1
    /\ procs[1].status = "exited"
    /\ procs[2].status = "running"
    /\ ~procs[1].sigterm

\* C15: a start_overlay() that finds no live Monitor and meets a missing
\* script or a refused spawn creates no process, lets no exception escape and
\* leaves the supervisor without an active handle; the start_overlay() after
\* it spawns once the script is there and the OS allows it.
C15_FailedStart ==
    /\ failed_start(lastOp)
          => /\ lastOp.spawned = 0
             /\ lastOp.exc = "None"
             /\ lastOp.procs_same
             /\ lastOp.after = lastOp.before
             /\ ~is_running(lastOp.after, procs)
             /\ ~child_alive(lastOp.after, procs)
    /\ (/\ lastOp.called = "start_overlay"
        /\ lastOp.retry
        /\ lastOp.script_exists
        /\ ~lastOp.refused)
          => /\ lastOp.spawned = 1
             /\ lastOp.after = Some(Len(procs))

C15_Witness ==
    /\ lastOp.called = "start_overlay"
    /\ lastOp.retry
    /\ lastOp.spawned = 1
    /\ lastOp.before = None
    /\ procs[Get(lastOp.after)].status = "running"

\* ------------------------------------------------------------------ mvu_overlay_app.py
\* AppConfig.TARGET_PROCESS_NAME = "python"
TARGET_PROCESS_NAME == <<"p", "y", "t", "h", "o", "n">>
\* AppConfig.TARGET_CMDLINE_KEYWORD = "main.py"
TARGET_CMDLINE_KEYWORD == <<"m", "a", "i", "n", ".", "p", "y">>

\* parser.add_argument("--pid", type=int, default=None); args = parser.parse_args()
parse_args(args) ==
    IF Len(args) >= 2 /\ args[1] = "--pid" THEN [pid |-> Some(int(args[2]))]
    ELSE [pid |-> None]

\* psutil.pid_exists(pid)
pid_exists(pid, tbl) == \E i \in DOMAIN tbl : tbl[i].pid = pid

\* The fallback loop of is_alive over psutil.process_iter(['name', 'cmdline']),
\* from entry i on.  proc.info holds None for an attribute psutil could not
\* read; None.lower() raises AttributeError, which the except clause (psutil
\* errors only) does not catch.
RECURSIVE process_iter_scan(_, _)
process_iter_scan(tbl, i) ==
    IF i > Len(tbl) THEN [value |-> FALSE, exc |-> "None", mode |-> "fallback"]
    ELSE LET info == tbl[i]
         IN  IF info.name = None
             THEN [value |-> FALSE, exc |-> "AttributeError", mode |-> "fallback"]
             ELSE IF /\ StrContains(TARGET_PROCESS_NAME, lower(Get(info.name)))
                     /\ info.cmdline # None
                     /\ Get(info.cmdline) # <<>>
                     /\ ListContains(TARGET_CMDLINE_KEYWORD, Get(info.cmdline))
             THEN [value |-> TRUE, exc |-> "None", mode |-> "fallback"]
             ELSE process_iter_scan(tbl, i + 1)

\* ProcessMonitorModel.is_alive.  "if self.target_pid:" is false for None and for 0.
is_alive(tpid, tbl) ==
    IF tpid # None /\ Get(tpid) # 0
    THEN [value |-> pid_exists(Get(tpid), tbl), exc |-> "None", mode |-> "pid"]
    ELSE process_iter_scan(tbl, 1)

\* ------------------------------------------------------------------ detector inputs
S_python3 == TARGET_PROCESS_NAME \o <<"3">>
S_Python_exe == <<"P", "y", "t", "h", "o", "n", ".", "e", "x", "e">>
S_node == <<"n", "o", "d", "e">>
S_path_main_py == <<"C", "o", "m", "f", "y", "U", "I", "/">> \o TARGET_CMDLINE_KEYWORD
S_app_js == <<"a", "p", "p", ".", "j", "s">>
S_s == <<"-", "s">>

\* name and cmdline of the processes the table may hold
Signatures ==
    { [name |-> Some(S_python3), cmdline |-> Some(<<S_python3, TARGET_CMDLINE_KEYWORD>>)],
      [name |-> Some(S_Python_exe), cmdline |-> Some(<<S_Python_exe, TARGET_CMDLINE_KEYWORD>>)],
      [name |-> Some(S_python3), cmdline |-> Some(<<S_python3, S_s, S_path_main_py>>)],
      [name |-> Some(S_python3), cmdline |-> Some(<<S_python3, S_app_js>>)],
      [name |-> Some(S_node), cmdline |-> Some(<<S_node, TARGET_CMDLINE_KEYWORD>>)],
      [name |-> Some(S_python3), cmdline |-> Some(<<>>)],
      [name |-> Some(S_python3), cmdline |-> None],
      [name |-> None, cmdline |-> None] }

TablePids == {0, 1, MaxPid}

ProcEntries ==
    { [pid |-> q, name |-> g.name, cmdline |-> g.cmdline] : q \in TablePids, g \in Signatures }

\* process tables of at most MaxProcs processes with distinct pids
Tables ==
    { t \in UNION { [1..k -> ProcEntries] : k \in 0..MaxProcs } :
        \A i, j \in DOMAIN t : i # j => t[i].pid # t[j].pid }

\* the integers given as --pid
PidArgs == {0 - 1, 0, 1, MaxPid}

\* the command line a user types for --pid n
user_argv(a) == IF a = None THEN <<>> ELSE <<"--pid", str(Get(a))>>

\* ------------------------------------------------------------------ SpecDetector
DetInit ==
    /\ pidArg \in {None} \cup {Some(n) : n \in PidArgs}
    /\ argv = user_argv(pidArg)
    /\ table \in Tables
    /\ target_pid = None
    /\ dpc = "main"
    /\ result = [value |-> FALSE, exc |-> "None", mode |-> "none"]

HostIdle ==
    /\ hostPid = 1
    /\ _instance = None
    /\ managers = <<>>
    /\ nodes = [n \in Nodes |-> None]
    /\ procs = <<>>
    /\ lastOp = NoOp

\* main(): process_model = ProcessMonitorModel(target_pid=args.pid)
DetConstruct ==
    /\ dpc = "main"
    /\ target_pid' = parse_args(argv).pid
    /\ dpc' = "constructed"
    /\ UNCHANGED <<pidArg, argv, table, result>>
    /\ UNCHANGED <<hostVars, monVars>>

\* a call of process_model.is_alive()
DetIsAlive ==
    /\ dpc = "constructed"
    /\ result' = is_alive(target_pid, table)
    /\ dpc' = "checked"
    /\ UNCHANGED <<pidArg, argv, table, target_pid>>
    /\ UNCHANGED <<hostVars, monVars>>

DetNext == DetConstruct \/ DetIsAlive

InitDetector == HostIdle /\ DetInit /\ MonIdle

SpecDetector == InitDetector /\ [][DetNext]_vars

\* ------------------------------------------------------------------ claims, SpecDetector
\* C9: for every integer N given as --pid N (0 included) is_alive() returns
\* true exactly when a process with identifier N is in the process table, and
\* does not use the name/cmdline heuristic; the heuristic is used only when
\* the flag is absent.
C9_PidModeForEveryInteger ==
    dpc = "checked"
        => /\ pidArg # None
                 => /\ result.mode = "pid"
                    /\ result.exc = "None"
                    /\ result.value = (\E i \in DOMAIN table : table[i].pid = Get(pidArg))
           /\ result.mode = "fallback" => pidArg = None

\* the heuristic as the claim states it: the name contains the name
\* substring and some command-line argument contains the cmdline substring
NameMatches(e) == e.name # None /\ StrContains(TARGET_PROCESS_NAME, Get(e.name))
CmdlineMatches(e) ==
    /\ e.cmdline # None
    /\ \E k \in DOMAIN Get(e.cmdline) :
          StrContains(TARGET_CMDLINE_KEYWORD, Get(e.cmdline)[k])

\* C10: in fallback mode the value is_alive() returns is true if and only if
\* some process has a name containing the name substring and command-line
\* arguments containing the cmdline substring.
C10_FallbackMatchesIffBoth ==
    (dpc = "checked" /\ pidArg = None /\ result.exc = "None")
        => result.value = (\E i \in DOMAIN table :
                              NameMatches(table[i]) /\ CmdlineMatches(table[i]))

\* a process psutil could inspect: name and cmdline are both there
Inspectable(e) == e.name # None /\ e.cmdline # None

\* the condition of the fallback loop, for a process that could be inspected
LoopCondition(e) ==
    /\ StrContains(TARGET_PROCESS_NAME, lower(Get(e.name)))
    /\ Get(e.cmdline) # <<>>
    /\ ListContains(TARGET_CMDLINE_KEYWORD, Get(e.cmdline))

\* C16: in fallback mode a process that cannot be inspected (its name or
\* cmdline is unavailable) is skipped: is_alive() raises nothing, returns
\* true if some inspectable process satisfies the loop's condition and false
\* if none does.
C16_FallbackSkipsUninspectable ==
    (dpc = "checked" /\ result.mode = "fallback")
        => /\ result.exc = "None"
           /\ result.value = (\E i \in DOMAIN table :
                                 Inspectable(table[i]) /\ LoopCondition(table[i]))

\* ------------------------------------------------------------------ Monitor program
\* 1024 ** 2
MiB == 1024 * 1024

S_VRAM == <<"V", "R", "A", "M", ":", " ">>
S_MB == <<" ", "M", "B">>

\* mem_info.free values the driver may report
FreeBytes == {0, MiB - 1, 5 * MiB - 1, 12 * MiB + 5}
\* nvmlDeviceGetMemoryInfo: the free bytes, or None when it raises NVMLError
QueryOutcomes == {None} \cup {Some(b) : b \in FreeBytes}

\* VramMonitorModel.initialize.  init_ok: nvmlInit() does not raise;
\* handle_ok: nvmlDeviceGetHandleByIndex(0) does not raise.
initialize(v, lib, init_ok, handle_ok) ==
    LET lib1 == [lib EXCEPT !.initCalls = @ + 1, !.loaded = @ \/ init_ok,
                            !.inited = @ \/ init_ok]
    IN  IF init_ok /\ handle_ok
        THEN [vm |-> [_handle |-> Some("device0"), _initialized |-> TRUE], nvml |-> lib1]
        ELSE [vm |-> [v EXCEPT !._initialized = FALSE], nvml |-> lib1]

\* VramMonitorModel.get_free_memory_mb.  q is the outcome of the query.
get_free_memory_mb(v, q) ==
    IF ~v._initialized \/ v._handle = None THEN None
    ELSE IF q = None THEN None
    ELSE Some(Get(q) \div MiB)

\* OverlayController._update_vram: the text it gives to view.update_text
update_vram_text(free_mb) ==
    IF free_mb # None THEN S_VRAM \o str(Get(free_mb)) \o S_MB
    ELSE S_VRAM_Err

\* whether get_free_memory_mb gets as far as nvmlDeviceGetMemoryInfo
issues_query(v) == v._initialized /\ v._handle # None

\* nvmlDeviceGetMemoryInfo as the library sees it
nvml_query(lib) ==
    [lib EXCEPT !.misused = @ \/ lib.initCalls = 0 \/ lib.shutdownCalls > 0]

\* One poll cycle: OverlayController._update_vram calling
\* VramMonitorModel.get_free_memory_mb.  q is the outcome the query has if it
\* is issued.  The result holds the telemetry model and the library
\* afterwards, the text shown and whether the query was issued.
poll_cycle_retries_init(v, lib, q) ==
    IF issues_query(v)
    THEN [vm |-> v, nvml |-> nvml_query(lib),
          text |-> update_vram_text(get_free_memory_mb(v, q)), queried |-> TRUE]
    ELSE [vm |-> v, nvml |-> initialize(v, lib, FALSE, FALSE).nvml,
          text |-> update_vram_text(None), queried |-> FALSE]
poll_cycle_rounds(v, lib, q) ==
    [vm |-> v,
     nvml |-> IF issues_query(v) THEN nvml_query(lib) ELSE lib,
     text |-> IF issues_query(v) /\ q # None
              THEN S_VRAM \o str((Get(q) + (MiB \div 2)) \div MiB) \o S_MB
              ELSE S_VRAM_Err,
     queried |-> issues_query(v)]
poll_cycle_gives_up(v, lib, q) ==
    [vm |-> IF issues_query(v) /\ q = None THEN [v EXCEPT !._initialized = FALSE] ELSE v,
     nvml |-> IF issues_query(v) THEN nvml_query(lib) ELSE lib,
     text |-> update_vram_text(get_free_memory_mb(v, q)),
     queried |-> issues_query(v)]
poll_cycle(v, lib, q) ==
    [vm |-> v,
     nvml |-> IF issues_query(v) THEN nvml_query(lib) ELSE lib,
     text |-> update_vram_text(get_free_memory_mb(v, q)),
     queried |-> issues_query(v)]

\* what the latest poll cycle did: who called it, whether it queried and with
\* what outcome, whether it left the telemetry model as it was, and whether
\* the cycle before it had a failed query
PollRecord(who, v, c, q, prev) ==
    [by |-> who, queried |-> c.queried, q |-> IF c.queried THEN q ELSE None,
     vm_same |-> (c.vm = v),
     after_failure |-> (prev.queried /\ prev.q = None)]

\* VramMonitorModel.shutdown.  ok: nvmlShutdown() does not raise.
shutdown(v, lib, ok) ==
    IF v._initialized
    THEN [lib EXCEPT !.shutdownCalls = @ + 1, !.loaded = IF ok THEN FALSE ELSE @]
    ELSE lib

\* OverlayController._check_process_alive, given what is_alive() did: the
\* exception is not handled, "not alive" quits the application
check_process_alive_inverted(r) ==
    IF r.exc # "None" THEN "raise"
    ELSE IF r.value THEN "quit"
    ELSE "return"
check_process_alive(r) ==
    IF r.exc # "None" THEN "raise"
    ELSE IF ~r.value THEN "quit"
    ELSE "return"

\* what _check_process_alive does to the NVML library when it quits: nothing,
\* the release is left to cleanup() after app.exec() has returned
on_quit_releases(v, lib) == shutdown(v, lib, TRUE)
on_quit(v, lib) == lib

\* app.exec(): the event loop delivers timer events until quit() is called
dispatching(ph) == ph = "exec"

LivePhases == {"created", "exec", "quitting"}

\* ------------------------------------------------------------------ Monitor inputs
\* how the Host itself shows in the process table
HostSignatures ==
    { [name |-> Some(S_python3), cmdline |-> Some(<<S_python3, TARGET_CMDLINE_KEYWORD>>)],
      [name |-> Some(S_python3), cmdline |-> Some(<<S_python3, S_s, S_path_main_py>>)] }

Entry(q, g) == [pid |-> q, name |-> g.name, cmdline |-> g.cmdline]

\* the other processes of the machine
OtherProcesses == {<<>>} \cup {<<Entry(0, g)>> : g \in Signatures}

\* a process that later gets the Host's pid
Reuser(q) == Entry(q, [name |-> Some(S_node), cmdline |-> Some(<<S_node, S_app_js>>)])

RemovePid(tbl, q) == SelectSeq(tbl, LAMBDA e : e.pid # q)

\* ------------------------------------------------------------------ SpecMonitor
MonInit ==
    /\ hostPid \in HostPids
    /\ spawnedByHost \in BOOLEAN
    /\ pidArg \in IF spawnedByHost THEN {Some(hostPid)}
                  ELSE {None, Some(0), Some(hostPid)}
    /\ argv = IF spawnedByHost THEN cmd(hostPid) ELSE user_argv(pidArg)
    /\ \E g \in HostSignatures, o \in OtherProcesses :
          table = <<Entry(hostPid, g)>> \o o
    /\ hostAlive = TRUE
    /\ target_pid = None
    /\ dpc = "off"
    /\ result = [value |-> FALSE, exc |-> "None", mode |-> "none"]
    /\ phase = "created"
    /\ vram_timer = FALSE
    /\ process_timer = FALSE
    /\ vm = VramMonitorModel
    /\ nvml = NvmlUnloaded
    /\ text = S_Init
    /\ quitCalls = 0
    /\ foundDead = FALSE
    /\ cleaned = FALSE
    /\ lastPoll = NoPoll

HostQuiet ==
    /\ _instance = None
    /\ managers = <<>>
    /\ nodes = [n \in Nodes |-> None]
    /\ procs = <<>>
    /\ lastOp = NoOp

hostObjects == <<_instance, managers, nodes, procs, lastOp>>

\* main() up to app.exec(): the arguments are parsed, the models and the view
\* are built, OverlayController.__init__ starts both timers, initializes NVML
\* and makes the first poll
main_startup ==
    /\ phase = "created"
    /\ \E init_ok \in BOOLEAN, handle_ok \in BOOLEAN, q \in QueryOutcomes :
         LET i == initialize(VramMonitorModel, nvml, init_ok, handle_ok)
             c == poll_cycle(i.vm, i.nvml, q)
         IN  /\ vm' = c.vm
             /\ nvml' = c.nvml
             /\ text' = c.text
             /\ lastPoll' = PollRecord("startup", i.vm, c, q, lastPoll)
    /\ target_pid' = parse_args(argv).pid
    /\ vram_timer' = TRUE
    /\ process_timer' = TRUE
    /\ phase' = "exec"
    /\ UNCHANGED <<pidArg, argv, table, dpc, result, spawnedByHost, hostAlive,
                   quitCalls, foundDead, cleaned, hostPid>>
    /\ UNCHANGED hostObjects

\* vram_timer.timeout: OverlayController._update_vram
_update_vram ==
    /\ vram_timer
    /\ phase \in {"exec", "quitting"}
    /\ \E q \in QueryOutcomes :
         LET c == poll_cycle(vm, nvml, q)
         IN  /\ vm' = c.vm
             /\ nvml' = c.nvml
             /\ text' = c.text
             /\ lastPoll' = PollRecord("timer", vm, c, q, lastPoll)
    /\ UNCHANGED <<pidArg, argv, table, target_pid, dpc, result, spawnedByHost,
                   hostAlive, phase, vram_timer, process_timer, quitCalls,
                   foundDead, cleaned, hostPid>>
    /\ UNCHANGED hostObjects

\* process_timer.timeout: OverlayController._check_process_alive.  An
\* exception leaving the slot ends the process (PyQt aborts on it).
_check_process_alive ==
    /\ process_timer
    /\ dispatching(phase)
    /\ LET r == is_alive(target_pid, table)
           d == check_process_alive(r)
       IN  /\ result' = r
           /\ foundDead' = (foundDead \/ (r.exc = "None" /\ ~r.value))
           /\ quitCalls' = IF d = "quit" THEN quitCalls + 1 ELSE quitCalls
           /\ phase' = IF d = "quit" THEN "quitting"
                        ELSE IF d = "raise" THEN "aborted"
                        ELSE phase
           /\ nvml' = IF d = "quit" THEN on_quit(vm, nvml) ELSE nvml
    /\ UNCHANGED <<pidArg, argv, table, target_pid, dpc, spawnedByHost, hostAlive,
                   vram_timer, process_timer, vm, text, cleaned, lastPoll, hostPid>>
    /\ UNCHANGED hostObjects

\* main() after app.exec() has returned: controller.cleanup(), sys.exit(exit_code)
main_shutdown ==
    /\ phase = "quitting"
    /\ vram_timer' = FALSE
    /\ process_timer' = FALSE
    /\ \E ok \in BOOLEAN : nvml' = shutdown(vm, nvml, ok)
    /\ cleaned' = TRUE
    /\ phase' = "exited"
    /\ UNCHANGED <<pidArg, argv, table, target_pid, dpc, result, spawnedByHost,
                   hostAlive, vm, text, quitCalls, foundDead, lastPoll, hostPid>>
    /\ UNCHANGED hostObjects

\* the Host's stop_overlay ends the Monitor with terminate() or kill()
Terminated ==
    /\ spawnedByHost
    /\ hostAlive
    /\ phase \in LivePhases
    /\ phase' = "killed"
    /\ UNCHANGED <<pidArg, argv, table, target_pid, dpc, result, spawnedByHost,
                   hostAlive, vram_timer, process_timer, vm, nvml, text, quitCalls,
                   foundDead, cleaned, lastPoll, hostPid>>
    /\ UNCHANGED hostObjects

\* the Host process ends
HostExits ==
    /\ hostAlive
    /\ hostAlive' = FALSE
    /\ table' = RemovePid(table, hostPid)
    /\ UNCHANGED <<pidArg, argv, target_pid, dpc, result, spawnedByHost, phase,
                   vram_timer, process_timer, vm, nvml, text, quitCalls, foundDead,
                   cleaned, lastPoll, hostPid>>
    /\ UNCHANGED hostObjects

\* the OS gives the dead Host's pid to a new process
PidReused ==
    /\ ~hostAlive
    /\ ~pid_exists(hostPid, table)
    /\ table' = Append(table, Reuser(hostPid))
    /\ UNCHANGED <<pidArg, argv, target_pid, dpc, result, spawnedByHost, hostAlive,
                   phase, vram_timer, process_timer, vm, nvml, text, quitCalls,
                   foundDead, cleaned, lastPoll, hostPid>>
    /\ UNCHANGED hostObjects

\* the process that got the Host's pid ends
ReuserExits ==
    /\ ~hostAlive
    /\ pid_exists(hostPid, table)
    /\ table' = RemovePid(table, hostPid)
    /\ UNCHANGED <<pidArg, argv, target_pid, dpc, result, spawnedByHost, hostAlive,
                   phase, vram_timer, process_timer, vm, nvml, text, quitCalls,
                   foundDead, cleaned, lastPoll, hostPid>>
    /\ UNCHANGED hostObjects

MonNext ==
    \/ main_startup
    \/ _update_vram
    \/ _check_process_alive
    \/ main_shutdown
    \/ Terminated
    \/ HostExits
    \/ PidReused
    \/ ReuserExits

InitMonitor == HostQuiet /\ MonInit

SpecMonitor == InitMonitor /\ [][MonNext]_vars

\* The OS runs the started process, the event loop fires the 3 s liveness
\* timer while it runs, and app.exec() returns once quit() was called.
FairMonitor ==
    /\ SpecMonitor
    /\ WF_vars(main_startup)
    /\ WF_vars(_check_process_alive)
    /\ WF_vars(main_shutdown)

\* ------------------------------------------------------------------ claims, Monitor
HostGone == ~hostAlive /\ ~pid_exists(hostPid, table)

\* C7: a Monitor spawned by the supervisor watches the pid of the Host that
\* spawned it, and once that Host is gone (while its pid is not in use
\* again) the Monitor eventually quits its event loop, runs cleanup and exits.
C7_HostGoneMonitorQuits ==
    /\ [](spawnedByHost /\ phase \in {"exec", "quitting", "exited"}
            => target_pid = Some(hostPid))
    /\ (spawnedByHost /\ phase \in LivePhases /\ HostGone)
          ~> \/ phase = "exited" /\ quitCalls = 1 /\ cleaned
             \/ pid_exists(hostPid, table)

C7_Witness ==
    /\ spawnedByHost
    /\ HostGone
    /\ hostPid = MaxPid
    /\ target_pid = Some(hostPid)
    /\ phase = "exited"
    /\ cleaned

\* C8: once a liveness check has found the target not alive the Monitor has
\* called QApplication.quit() exactly once, and never calls it otherwise: no
\* later liveness check quits again.
C8_QuitExactlyOnce ==
    /\ foundDead => quitCalls = 1
    /\ ~foundDead => quitCalls = 0

C8_Witness ==
    /\ foundDead
    /\ quitCalls = 1
    /\ phase = "exited"
    /\ process_timer = FALSE

\* C11: a Monitor that has got past startup has made exactly one
\* initialization attempt (nvmlInit call), and never more than one; once that
\* attempt has failed, every poll cycle shows "VRAM: Err" without querying,
\* and none of them initializes again.
C11_SingleInitAttempt ==
    /\ nvml.initCalls <= 1
    /\ phase \in {"exec", "quitting", "exited", "aborted"} => nvml.initCalls = 1
    /\ (lastPoll.by # "none" /\ ~vm._initialized)
          => /\ text = S_VRAM_Err
             /\ ~lastPoll.queried
             /\ nvml.initCalls = 1

C11_Witness ==
    /\ ~vm._initialized
    /\ lastPoll.by = "timer"
    /\ text = S_VRAM_Err
    /\ nvml.initCalls = 1
    /\ phase = "exec"

\* ------------------------------------------------------------------ SpecTelemetry
\* A VramMonitorModel object driven through its public methods by any caller
\* (as a unit test drives it), with no Monitor program around it.

\* vram_model.initialize()
TelInitialize ==
    /\ nvml.initCalls < MaxCalls
    /\ \E init_ok \in BOOLEAN, handle_ok \in BOOLEAN :
         LET i == initialize(vm, nvml, init_ok, handle_ok)
         IN  /\ vm' = i.vm
             /\ nvml' = i.nvml
    /\ UNCHANGED <<spawnedByHost, hostAlive, phase, vram_timer, process_timer, text,
                   quitCalls, foundDead, cleaned, lastPoll>>
    /\ UNCHANGED <<hostVars, detVars>>

\* vram_model.get_free_memory_mb(), shown as _update_vram shows it
TelPoll ==
    /\ \E q \in QueryOutcomes :
         LET c == poll_cycle(vm, nvml, q)
         IN  /\ vm' = c.vm
             /\ nvml' = c.nvml
             /\ text' = c.text
             /\ lastPoll' = PollRecord("caller", vm, c, q, lastPoll)
    /\ UNCHANGED <<spawnedByHost, hostAlive, phase, vram_timer, process_timer,
                   quitCalls, foundDead, cleaned>>
    /\ UNCHANGED <<hostVars, detVars>>

\* vram_model.shutdown()
TelShutdown ==
    /\ nvml.shutdownCalls < MaxCalls
    /\ \E ok \in BOOLEAN : nvml' = shutdown(vm, nvml, ok)
    /\ UNCHANGED <<spawnedByHost, hostAlive, phase, vram_timer, process_timer, vm,
                   text, quitCalls, foundDead, cleaned, lastPoll>>
    /\ UNCHANGED <<hostVars, detVars>>

TelNext ==
    \/ TelInitialize
    \/ TelPoll
    \/ TelShutdown

\* VramMonitorModel() just constructed, the library not yet loaded
InitTelemetry == HostIdle /\ DetIdle /\ MonIdle

SpecTelemetry == InitTelemetry /\ [][TelNext]_vars

\* C12: over any sequence of shutdown() calls on a telemetry model that was
\* initialized once, nvmlShutdown is invoked at most once.
C12_ReleaseAtMostOnce ==
    nvml.initCalls <= 1 => nvml.shutdownCalls <= 1

\* the label texts of the claim's two examples
S_VRAM_4_MB == <<"V", "R", "A", "M", ":", " ", "4", " ", "M", "B">>
S_VRAM_0_MB == <<"V", "R", "A", "M", ":", " ", "0", " ", "M", "B">>

\* C13: after a poll cycle whose query returned b free bytes the label shows
\* "VRAM: {b div 1048576} MB" with floor division (5242879 bytes: 4 MB,
\* 0 bytes: 0 MB), never a rounded value and never the error text.
C13_MegabyteTruncation ==
    (lastPoll.queried /\ lastPoll.q # None)
        => /\ text = S_VRAM \o str(Get(lastPoll.q) \div 1048576) \o S_MB
           /\ text # S_VRAM_Err
           /\ Get(lastPoll.q) = 5242879 => text = S_VRAM_4_MB
           /\ Get(lastPoll.q) = 0 => text = S_VRAM_0_MB

C13_Witness ==
    /\ lastPoll.by = "timer"
    /\ lastPoll.queried
    /\ lastPoll.q = Some(5242879)
    /\ text = S_VRAM_4_MB

\* C17: a poll cycle whose query fails shows "VRAM: Err" and leaves the
\* initialized flag and the device handle as they were; the cycle after it
\* issues the query again and shows "VRAM: n MB" if that query succeeds.
C17_QueryFailureIsPerCycle ==
    /\ (lastPoll.queried /\ lastPoll.q = None)
          => /\ text = S_VRAM_Err
             /\ lastPoll.vm_same
             /\ vm._initialized
             /\ vm._handle # None
    /\ lastPoll.after_failure
          => /\ lastPoll.queried
             /\ lastPoll.q # None
                   => text = S_VRAM \o str(Get(lastPoll.q) \div MiB) \o S_MB

C17_Witness ==
    /\ lastPoll.after_failure
    /\ lastPoll.queried
    /\ lastPoll.q = Some(12 * MiB + 5)
    /\ text = S_VRAM \o <<"1", "2">> \o S_MB

\* C18: no free-memory query reaches the library before the initialization
\* attempt or after the release: a cycle that queried came after the one
\* nvmlInit call, and once nvmlShutdown was called both timers are stopped.
C18_QueryWithinLibraryLife ==
    /\ ~nvml.misused
    /\ lastPoll.queried => nvml.initCalls = 1
    /\ nvml.shutdownCalls > 0 => ~vram_timer /\ ~process_timer /\ phase = "exited"

C18_Witness ==
    /\ phase = "exited"
    /\ nvml.shutdownCalls = 1
    /\ lastPoll.by = "timer"
    /\ lastPoll.queried
    /\ ~nvml.misused

\* C19: at the end of a Monitor that ran cleanup, nvmlShutdown was called
\* (once) if nvmlInit had succeeded, also when the device-handle lookup
\* failed after it, and was never called if nvmlInit had failed.
C19_InitPairedWithRelease ==
    /\ (phase = "exited" /\ cleaned /\ nvml.inited) => nvml.shutdownCalls = 1
    /\ ~nvml.inited => nvml.shutdownCalls = 0

====
